---- MODULE Spec2Model ----
(***************************************************************************)
(* A model of the wade data-binding engine (bind/binding.go): scopes and  *)
(* symbol tables, the recursive expression evaluator, the reactive        *)
(* watcher, and the two-phase tree binder that expands custom tags.       *)
(***************************************************************************)
EXTENDS Integers, Sequences, FiniteSets, TLC

(***************************************************************************)
(* Bounds of the model.                                                    *)
(***************************************************************************)
MaxPasses == 2
MaxMutations == 2
MaxTagModels == 5
MaxHelpers == 3

(***************************************************************************)
(* Values.  A reflect.Value is modelled by the value it holds; Invalid is  *)
(* the zero reflect.Value (no value at all).                               *)
(***************************************************************************)
Invalid == "invalid"
FuncVal == "func"
Bools == {"true", "false"}

TypeOf(v) ==
    IF v \in Bools THEN "bool"
    ELSE IF v = FuncVal THEN "func"
    ELSE IF v = Invalid THEN "nil"
    ELSE "string"

NotOf(v) == IF v = "true" THEN "false" ELSE "true"

NoErr == [msg |-> "", sym |-> ""]
ErrOf(m, s) == [msg |-> m, sym |-> s]

(***************************************************************************)
(* Models.  Model references are small integers: NilPtr is a typed nil     *)
(* pointer, NoModel the untyped nil interface, PageModel and AuxModel the  *)
(* application's page-level models, and the references above AuxModel the  *)
(* instances that CustomTag.NewModel returns.                              *)
(***************************************************************************)
NoModel == -1
NilPtr == 0
PageModel == 1
AuxModel == 2
TagModels == (AuxModel + 1)..(AuxModel + MaxTagModels)
ModelRefs == {PageModel, AuxModel} \cup TagModels

\* The methods of a model's type (Kind() == reflect.Func members).
Methods(m) == IF m = PageModel THEN {"toggle", "same"} ELSE {}

\* The model a custom tag's NewModel returns: one field, entry, of type bool.
NewModel == [entry |-> "false"]

\* The static type of a field: done and entry are bool, state is interface{}.
FieldType(f) == IF f = "state" THEN "any" ELSE "bool"

AssignableTo(src, dst) == dst = "any" \/ src = dst

(***************************************************************************)
(* Expressions.  parse turns an expression string into its AST; parseExpr  *)
(* recognises a literal by its text.                                       *)
(***************************************************************************)
ValueExpr == "ValueExpr"
CallExpr == "CallExpr"

Val(n) == [typ |-> ValueExpr, name |-> n, args |-> <<>>]
Call(n, a) == [typ |-> CallExpr, name |-> n, args |-> a]

ExprStrings ==
    {"done", "state", "entry", "destroy", "true", "toggle()", "done()",
     "same(done)", "not(done)", "not(state)", "not(true)", "not(destroy)",
     "eq(done, state)", "eq(done, done)", "not(entry)", "eq(destroy, done)",
     "eq(same(done), done)"}

parse(s) ==
    CASE s = "toggle()" -> Call("toggle", <<>>)
      [] s = "done()" -> Call("done", <<>>)
      [] s = "same(done)" -> Call("same", <<Val("done")>>)
      [] s = "not(done)" -> Call("not", <<Val("done")>>)
      [] s = "not(state)" -> Call("not", <<Val("state")>>)
      [] s = "not(true)" -> Call("not", <<Val("true")>>)
      [] s = "not(destroy)" -> Call("not", <<Val("destroy")>>)
      [] s = "eq(done, state)" -> Call("eq", <<Val("done"), Val("state")>>)
      [] s = "eq(done, done)" -> Call("eq", <<Val("done"), Val("done")>>)
      [] s = "not(entry)" -> Call("not", <<Val("entry")>>)
      [] s = "eq(destroy, done)" -> Call("eq", <<Val("destroy"), Val("done")>>)
      [] s = "eq(same(done), done)" ->
            Call("eq", <<Call("same", <<Val("done")>>), Val("done")>>)
      [] OTHER -> Val(s)

parseExpr(name) ==
    IF name \in Bools
    THEN [litVal |-> name, isLiteral |-> TRUE]
    ELSE [litVal |-> Invalid, isLiteral |-> FALSE]

(***************************************************************************)
(* Functions.  callFunc applies a function value to the evaluated          *)
(* arguments; a call that reflection rejects (wrong number or type of      *)
(* arguments) is an error.                                                 *)
(***************************************************************************)
HelperFns == {"not", "eq"}

callFunc(fn, args, mdl) ==
    CASE fn.name = "not" ->
            IF Len(args) = 1 /\ args[1] \in Bools
            THEN [v |-> NotOf(args[1]), ok |-> TRUE]
            ELSE [v |-> Invalid, ok |-> FALSE]
      [] fn.name = "eq" ->
            IF Len(args) = 2
            THEN [v |-> IF args[1] = args[2] THEN "true" ELSE "false", ok |-> TRUE]
            ELSE [v |-> Invalid, ok |-> FALSE]
      [] fn.name = "toggle" ->
            IF Len(args) = 0
            THEN [v |-> NotOf(mdl[fn.model].done), ok |-> TRUE]
            ELSE [v |-> Invalid, ok |-> FALSE]
      [] fn.name = "same" ->
            IF Len(args) = 1 /\ args[1] \in Bools
            THEN [v |-> IF args[1] = mdl[fn.model].done THEN "true" ELSE "false",
                  ok |-> TRUE]
            ELSE [v |-> Invalid, ok |-> FALSE]
      [] OTHER -> [v |-> Invalid, ok |-> FALSE]

(***************************************************************************)
(* Scopes and symbol tables.  A scope is a sequence of symbol tables; a    *)
(* table is either model-backed or the engine's helper table (a Go map,    *)
(* shared by reference: hlp is its current content, name -> function).     *)
(***************************************************************************)
ModelTable(m) == [kind |-> "model", model |-> m]
HelperTable == [kind |-> "helpers", model |-> NoModel]

NoSym == [kind |-> "none", name |-> "", fn |-> "", model |-> NoModel]

\* evaluateObjField: the member of the model named symbol, if it has one.
evaluateObjField(symbol, model, mdl) ==
    IF symbol \in DOMAIN mdl[model]
    THEN [ok |-> TRUE,
          eval |-> [kind |-> "field", name |-> symbol, fn |-> "", model |-> model]]
    ELSE IF symbol \in Methods(model)
    THEN [ok |-> TRUE,
          eval |-> [kind |-> "field", name |-> symbol, fn |-> symbol, model |-> model]]
    ELSE [ok |-> FALSE, eval |-> NoSym]

modelLookupNoNilCheck(st, symbol, mdl) ==
    IF st.model = NilPtr
    THEN [ok |-> TRUE,
          sym |-> [kind |-> "field", name |-> symbol, fn |-> "nil",
                   model |-> NilPtr]]
    ELSE [ok |-> evaluateObjField(symbol, st.model, mdl).ok,
          sym |-> evaluateObjField(symbol, st.model, mdl).eval]

modelSymbolTable_lookup(st, symbol, mdl) ==
    IF st.model = NilPtr
    THEN [ok |-> FALSE, sym |-> NoSym]
    ELSE [ok |-> evaluateObjField(symbol, st.model, mdl).ok,
          sym |-> evaluateObjField(symbol, st.model, mdl).eval]

mapSymbolTable_lookup(symbol, hlp) ==
    IF symbol \in DOMAIN hlp
    THEN [ok |-> TRUE,
          sym |-> [kind |-> "func", name |-> symbol, fn |-> hlp[symbol],
                   model |-> NoModel]]
    ELSE [ok |-> FALSE, sym |-> NoSym]

table_lookup(st, symbol, mdl, hlp) ==
    IF st.kind = "model"
    THEN modelSymbolTable_lookup(st, symbol, mdl)
    ELSE mapSymbolTable_lookup(symbol, hlp)

RECURSIVE scanTables(_, _, _, _, _)
scanTables(tables, i, symbol, mdl, hlp) ==
    IF i > Len(tables)
    THEN [sym |-> NoSym, idx |-> 0,
          err |-> ErrOf("Unable to find symbol in the scope", symbol)]
    ELSE IF table_lookup(tables[i], symbol, mdl, hlp).ok
    THEN [sym |-> table_lookup(tables[i], symbol, mdl, hlp).sym, idx |-> i,
          err |-> NoErr]
    ELSE scanTables(tables, i + 1, symbol, mdl, hlp)

RECURSIVE scanTablesLast(_, _, _, _, _)
scanTablesLast(tables, i, symbol, mdl, hlp) ==
    IF i < 1
    THEN [sym |-> NoSym, idx |-> 0,
          err |-> ErrOf("Unable to find symbol in the scope", symbol)]
    ELSE IF table_lookup(tables[i], symbol, mdl, hlp).ok
    THEN [sym |-> table_lookup(tables[i], symbol, mdl, hlp).sym, idx |-> i,
          err |-> NoErr]
    ELSE scanTablesLast(tables, i - 1, symbol, mdl, hlp)

scope_lookup_last(s, symbol, mdl, hlp) == scanTablesLast(s, Len(s), symbol, mdl, hlp)

scope_lookup(s, symbol, mdl, hlp) == scanTables(s, 1, symbol, mdl, hlp)

scope_merge(s, target) == s \o target

newModelScope(model) ==
    IF model # NoModel THEN <<ModelTable(model)>> ELSE <<>>

\* The engine's base scope: the helper table alone.
BaseScope == <<HelperTable>>

(***************************************************************************)
(* Symbols: value() and call().                                            *)
(***************************************************************************)
sym_value(sym, mdl) ==
    IF sym.kind = "func" THEN FuncVal
    ELSE IF sym.fn # "" THEN FuncVal
    ELSE mdl[sym.model][sym.name]

modelFieldSymbol_call_unchecked(sym, args, mdl) ==
    IF sym.fn = ""
    THEN [v |-> mdl[sym.model][sym.name], err |-> NoErr, called |-> TRUE]
    ELSE IF callFunc(sym, args, mdl).ok
         THEN [v |-> callFunc(sym, args, mdl).v, err |-> NoErr, called |-> TRUE]
         ELSE [v |-> Invalid, err |-> ErrOf("call failed", sym.name), called |-> TRUE]

modelFieldSymbol_call(sym, args, mdl) ==
    IF sym.fn = ""
    THEN [v |-> Invalid, err |-> ErrOf("Cannot call, it's not a method", sym.name),
          called |-> FALSE]
    ELSE IF callFunc(sym, args, mdl).ok
         THEN [v |-> callFunc(sym, args, mdl).v, err |-> NoErr, called |-> TRUE]
         ELSE [v |-> Invalid, err |-> ErrOf("call failed", sym.name), called |-> TRUE]

funcSymbol_call(sym, args, mdl) ==
    IF callFunc([name |-> sym.fn, model |-> NoModel], args, mdl).ok
    THEN [v |-> callFunc([name |-> sym.fn, model |-> NoModel], args, mdl).v,
          err |-> NoErr, called |-> TRUE]
    ELSE [v |-> Invalid, err |-> ErrOf("call failed", sym.name), called |-> TRUE]

sym_call(sym, args, mdl) ==
    IF sym.kind = "func"
    THEN funcSymbol_call(sym, args, mdl)
    ELSE modelFieldSymbol_call(sym, args, mdl)

\* A symbol is bindable when it is a modelFieldSymbol (it has bindObj).
IsBindable(sym) == sym.kind = "field"

(***************************************************************************)
(* The evaluator.  The result carries, besides the code's (v, blist, err), *)
(* the functions invoked (calls) and the names resolved (looked), in the   *)
(* order the evaluation performed them.                                    *)
(***************************************************************************)
EvalFail(e, bl, cs, lk) ==
    [v |-> Invalid, blist |-> bl, err |-> e, calls |-> cs, looked |-> lk]

RECURSIVE evaluateRec(_, _, _, _)
RECURSIVE evalArgs(_, _, _, _, _, _)

SelectSeqNotIn(seq, seen) ==
    SelectSeq(seq, LAMBDA b : \A i \in 1..Len(seen) : seen[i] # b)

argStepDedup(args, i, acc, s, mdl, hlp, r) ==
    IF r.err # NoErr
    THEN [vals |-> Append(acc.vals, r.v), blist |-> acc.blist, err |-> r.err,
          calls |-> acc.calls \o r.calls, looked |-> acc.looked \o r.looked]
    ELSE evalArgs(args, i + 1,
                  [vals |-> Append(acc.vals, r.v),
                   blist |-> acc.blist \o SelectSeqNotIn(r.blist, acc.blist),
                   err |-> NoErr, calls |-> acc.calls \o r.calls,
                   looked |-> acc.looked \o r.looked],
                  s, mdl, hlp)

argStepNoFailFast(args, i, acc, s, mdl, hlp, r) ==
    evalArgs(args, i + 1,
             [vals |-> Append(acc.vals, r.v), blist |-> acc.blist \o r.blist,
              err |-> IF acc.err # NoErr THEN acc.err ELSE r.err,
              calls |-> acc.calls \o r.calls,
              looked |-> acc.looked \o r.looked],
             s, mdl, hlp)

\* One turn of the loop over e.args (binding.go 249-257), r being what
\* evaluateRec returned for argument i.
argStep(args, i, acc, s, mdl, hlp, r) ==
    IF r.err # NoErr
    THEN [vals |-> Append(acc.vals, r.v), blist |-> acc.blist, err |-> r.err,
          calls |-> acc.calls \o r.calls, looked |-> acc.looked \o r.looked]
    ELSE evalArgs(args, i + 1,
                  [vals |-> Append(acc.vals, r.v), blist |-> acc.blist \o r.blist,
                   err |-> NoErr, calls |-> acc.calls \o r.calls,
                   looked |-> acc.looked \o r.looked],
                  s, mdl, hlp)

\* The loop over e.args: acc holds the argument values, bindables, calls and
\* lookups gathered so far.
evalArgs(args, i, acc, s, mdl, hlp) ==
    IF i > Len(args) THEN acc
    ELSE argStep(args, i, acc, s, mdl, hlp, evaluateRec(args[i], s, mdl, hlp))

\* binding.go 264-278: res is what sym.value() or sym.call(args) returned.
evalFinish(e, ar, sym, res) ==
    IF res.err # NoErr
    THEN EvalFail(res.err, ar.blist,
                  IF res.called
                  THEN Append(ar.calls, [name |-> e.name, args |-> ar.vals])
                  ELSE ar.calls,
                  Append(ar.looked, e.name))
    ELSE [v |-> res.v,
          blist |-> IF IsBindable(sym) THEN Append(ar.blist, sym) ELSE ar.blist,
          err |-> NoErr,
          calls |-> IF res.called
                    THEN Append(ar.calls, [name |-> e.name, args |-> ar.vals])
                    ELSE ar.calls,
          looked |-> Append(ar.looked, e.name)]

\* binding.go 259-269: lk is what b.scope.lookup(e.name) returned.
evalSymbol(e, ar, lk, mdl) ==
    IF lk.err # NoErr
    THEN EvalFail(lk.err, ar.blist, ar.calls, Append(ar.looked, e.name))
    ELSE evalFinish(e, ar, lk.sym,
                    IF e.typ = ValueExpr
                    THEN [v |-> sym_value(lk.sym, mdl), err |-> NoErr,
                          called |-> FALSE]
                    ELSE sym_call(lk.sym, ar.vals, mdl))

\* binding.go 248-262: ar is what the loop over the arguments left.
evalNode(e, ar, s, mdl, hlp) ==
    IF ar.err # NoErr
    THEN EvalFail(ar.err, ar.blist, ar.calls, ar.looked)
    ELSE evalSymbol(e, ar, scope_lookup(s, e.name, mdl, hlp), mdl)

evaluateRec(e, s, mdl, hlp) ==
    IF parseExpr(e.name).isLiteral
    THEN [v |-> parseExpr(e.name).litVal, blist |-> <<>>, err |-> NoErr,
          calls |-> <<>>, looked |-> <<>>]
    ELSE evalNode(e,
                  evalArgs(e.args, 1,
                           [vals |-> <<>>, blist |-> <<>>, err |-> NoErr,
                            calls |-> <<>>, looked |-> <<>>], s, mdl, hlp),
                  s, mdl, hlp)

WithRoot(root, r) ==
    [root |-> root, blist |-> r.blist, value |-> r.v, err |-> r.err,
     calls |-> r.calls, looked |-> r.looked]

\* evaluate: parse, then evaluateRec; an invalid value is handed on as nil.
evaluate(bstr, s, mdl, hlp) ==
    WithRoot(parse(bstr), evaluateRec(parse(bstr), s, mdl, hlp))

(***************************************************************************)
(* Bind-strings.  A bind-string is a sequence of tokens: expression        *)
(* strings, names, and the separators "->", ",", ";" and ":".              *)
(***************************************************************************)
RECURSIVE splitFrom(_, _, _, _)
splitFrom(s, i, sep, acc) ==
    IF i > Len(s) THEN acc
    ELSE IF s[i] = sep
    THEN splitFrom(s, i + 1, sep, Append(acc, <<>>))
    ELSE splitFrom(s, i + 1, sep, [acc EXCEPT ![Len(acc)] = Append(@, s[i])])

\* strings.Split
Split(s, sep) == splitFrom(s, 1, sep, << <<>> >>)

\* strings.TrimSpace of one part: its text.
TrimSpace(part) == IF part = <<>> THEN "" ELSE part[1]

NoPanic == [msg |-> "", sym |-> "", bstr |-> <<>>]
Panic(m, sy, b) == [msg |-> m, sym |-> sy, bstr |-> b]

bindStringPanic(err, bindstring) == Panic(err.msg, err.sym, bindstring)

(***************************************************************************)
(* The element tree.  Elements are fixed; the tree is the children map,    *)
(* which custom-tag expansion rewrites.  Custom is the set of elements the *)
(* CustomElemManager recognises as custom tags; DomBinders the registered  *)
(* DOM binders.  t2 lies inside t1; t3 follows t1 in the root's list.  The *)
(* if binder takes its element out of the document when its value is       *)
(* false.                                                                  *)
(***************************************************************************)
Root == "root"
Elems == {"root", "a", "a1", "t1", "i1", "t2", "t3"}
Custom == {"t1", "t2", "t3"}

InitChildren ==
    [e \in Elems |->
        CASE e = "root" -> <<"a", "t1", "t3">>
          [] e = "a" -> <<"a1">>
          [] e = "t1" -> <<"i1", "t2">>
          [] OTHER -> <<>>]

BindAttr == "bind"
DomBindAttrs == {"bind-text", "bind-visible", "bind-if", "bind-nosuch"}
AttrNames == {BindAttr} \cup DomBindAttrs
DomBinders == {"text", "visible", "if"}

\* strings.HasPrefix(name, BindPrefix)
HasBindPrefix(name) == name \in DomBindAttrs

\* strings.Split(astr, "-")[1]
BinderName(astr) ==
    CASE astr = "bind-text" -> "text"
      [] astr = "bind-visible" -> "visible"
      [] astr = "bind-if" -> "if"
      [] OTHER -> "nosuch"

RECURSIVE Reaches(_, _, _)
Reaches(ch, from, e) ==
    from = e \/ \E i \in 1..Len(ch[from]) : Reaches(ch, ch[from][i], e)

\* jqExists: the element is still in the document.
jqExists(ch, e) == Reaches(ch, Root, e)

ParentOf(ch, e) ==
    IF \E p \in Elems : \E i \in 1..Len(ch[p]) : ch[p][i] = e
    THEN CHOOSE p \in Elems : \E i \in 1..Len(ch[p]) : ch[p][i] = e
    ELSE "none"

RECURSIVE spliceAt(_, _, _)
spliceAt(seq, e, repl) ==
    IF seq = <<>> THEN <<>>
    ELSE IF Head(seq) = e THEN repl \o spliceAt(Tail(seq), e, repl)
    ELSE <<Head(seq)>> \o spliceAt(Tail(seq), e, repl)

\* elem.ReplaceWith(elem.Contents()): the element's children take its place
\* in its parent, and the element itself leaves the tree.
ReplaceWithContents(ch, e) ==
    IF ParentOf(ch, e) = "none" THEN ch
    ELSE [ch EXCEPT ![ParentOf(ch, e)] = spliceAt(@, e, ch[e]), ![e] = <<>>]

\* The element leaves its parent, taking its own children with it.
Detach(ch, e) ==
    IF ParentOf(ch, e) = "none" THEN ch
    ELSE [ch EXCEPT ![ParentOf(ch, e)] = spliceAt(@, e, <<>>)]

\* What the binder's Bind and Update do to the tree: the if binder takes its
\* element out of the document when the value is false; the others leave
\* the tree alone.
binderEffect(ch, binder, elem, log) ==
    IF binder = "if" /\ log # <<>> /\ log[Len(log)] = [op |-> "Update", v |-> "false"]
    THEN Detach(ch, elem)
    ELSE ch

Reverse(seq) == [i \in 1..Len(seq) |-> seq[Len(seq) + 1 - i]]

(***************************************************************************)
(* Prevention markers: the attribute wade-rsvd-<bindattr> = "t" on an      *)
(* element, kept as the set of (element, bindattr) pairs.                  *)
(***************************************************************************)
preventBinding(mk, elem, bindattr) == mk \cup {<<elem, bindattr>>}

bindingPreventedNever(mk, elem, bindattr) == FALSE

bindingPrevented(mk, elem, bindattr) ==
    <<elem, "all">> \in mk \/ <<elem, bindattr>> \in mk

(***************************************************************************)
(* bindPrepare.  It walks the tree (ch), reads each element's attributes   *)
(* (at) and returns the two task lists without running any task.  n is    *)
(* the number of NewModel calls made so far; rev picks the order in which  *)
(* Go's map iteration yields an element's attributes.                      *)
(***************************************************************************)
TagModelAt(n) == AuxModel + n

callNewModelTwice(acc) == [acc EXCEPT !.n = @ + 2]

\* binding.go 516-519: customTagModel = custag.NewModel(elem), counted in n.
callNewModel(acc) == [acc EXCEPT !.n = @ + 1]

AttrTask(elem, name, bstr, ebs, once, tm) ==
    [kind |-> "attr", elem |-> elem, name |-> name, bstr |-> bstr,
     scope |-> ebs, once |-> once, tmodel |-> tm]

DomTask(elem, name, bstr, ebs, once) ==
    [kind |-> "dom", elem |-> elem, name |-> name, bstr |-> bstr,
     scope |-> ebs, once |-> once, tmodel |-> NoModel]

CustomElemTask(elem, tm, once) == [elem |-> elem, tmodel |-> tm, once |-> once]

\* binding.go 523: the bind attribute is for custom tags only.
bindAttrAllowed(isCustom) == isCustom

domBindAllowedAlways(isCustom) == TRUE

\* binding.go 534: a DOM bind is for elements that are not custom tags.
domBindAllowed(isCustom) == ~isCustom

\* The loop over one element's attributes (binding.go 521-544).
RECURSIVE prepareAttrs(_, _, _, _, _, _, _, _, _)
prepareAttrs(as, j, elem, isCustom, tm, ebs, once, ch, acc) ==
    IF j > Len(as) \/ acc.err # NoPanic THEN acc
    ELSE
    LET name == as[j].name
        bstr == as[j].bstr
    IN IF name = BindAttr
       THEN IF ~bindAttrAllowed(isCustom)
            THEN [acc EXCEPT !.err =
                     Panic("Element hasn't been registered as a custom element",
                           elem, bstr)]
            ELSE prepareAttrs(as, j + 1, elem, isCustom, tm, ebs, once, ch,
                     [acc EXCEPT !.bt =
                         Append(@, AttrTask(elem, name, bstr, ebs, once, tm))])
       ELSE IF HasBindPrefix(name) /\ jqExists(ch, elem)
       THEN IF ~domBindAllowed(isCustom)
            THEN [acc EXCEPT !.err =
                     Panic("Dom binding is not allowed for custom element tags",
                           elem, bstr)]
            ELSE prepareAttrs(as, j + 1, elem, isCustom, tm, ebs, once, ch,
                     [acc EXCEPT !.bt =
                         Append(@, DomTask(elem, name, bstr, ebs, once))])
       ELSE prepareAttrs(as, j + 1, elem, isCustom, tm, ebs, once, ch, acc)

RECURSIVE bindPrepare(_, _, _, _, _, _, _, _)
RECURSIVE prepareElems(_, _, _, _, _, _, _, _, _)

\* binding.go 560-562: sub is what the recursive bindPrepare returned.
mergeTasks(elems, i, bs, once, bindrelem, ch, at, rev, acc, sub) ==
    prepareElems(elems, i + 1, bs, once, bindrelem, ch, at, rev,
                 [sub EXCEPT !.bt = acc.bt \o sub.bt, !.cet = acc.cet \o sub.cet])

elemTasksDescending(elems, i, bs, once, bindrelem, ch, at, rev, acc) ==
    IF acc.err # NoPanic THEN acc
    ELSE IF ~bindrelem \/ i > 1
    THEN mergeTasks(elems, i, bs, once, bindrelem, ch, at, rev,
             IF elems[i] \in Custom
             THEN [acc EXCEPT !.cet =
                      Append(@, CustomElemTask(elems[i], TagModelAt(acc.n), once))]
             ELSE acc,
             bindPrepare(elems[i], bs, once, FALSE, ch, at, rev,
                         [acc EXCEPT !.bt = <<>>, !.cet = <<>>]))
    ELSE prepareElems(elems, i + 1, bs, once, bindrelem, ch, at, rev, acc)

\* binding.go 546-564, acc being the tasks after the element's attributes.
elemTasks(elems, i, bs, once, bindrelem, ch, at, rev, acc) ==
    IF acc.err # NoPanic THEN acc
    ELSE IF ~bindrelem \/ i > 1
    THEN IF elems[i] \in Custom
         THEN prepareElems(elems, i + 1, bs, once, bindrelem, ch, at, rev,
                  [acc EXCEPT !.cet =
                      Append(@, CustomElemTask(elems[i], TagModelAt(acc.n), once))])
         ELSE mergeTasks(elems, i, bs, once, bindrelem, ch, at, rev, acc,
                  bindPrepare(elems[i], bs, once, FALSE, ch, at, rev,
                              [acc EXCEPT !.bt = <<>>, !.cet = <<>>]))
    ELSE prepareElems(elems, i + 1, bs, once, bindrelem, ch, at, rev, acc)

\* The loop over elems (binding.go 504-565).  A custom tag gets its model
\* from NewModel before its attributes are read.
prepareElems(elems, i, bs, once, bindrelem, ch, at, rev, acc) ==
    IF i > Len(elems) \/ acc.err # NoPanic THEN acc
    ELSE elemTasks(elems, i, bs, once, bindrelem, ch, at, rev,
             prepareAttrs(IF rev THEN Reverse(at[elems[i]]) ELSE at[elems[i]], 1,
                          elems[i], elems[i] \in Custom,
                          IF elems[i] \in Custom THEN TagModelAt(acc.n + 1)
                          ELSE NoModel,
                          bs, once, ch,
                          IF elems[i] \in Custom THEN callNewModel(acc)
                          ELSE acc))

bindPrepare(relem, bs, once, bindrelem, ch, at, rev, acc) ==
    prepareElems((IF bindrelem THEN <<relem>> ELSE <<>>) \o ch[relem], 1,
                 bs, once, bindrelem, ch, at, rev, acc)

\* The accumulator bindPrepare starts from, with n NewModel calls made so far.
PrepStart(n) == [bt |-> <<>>, cet |-> <<>>, n |-> n, err |-> NoPanic]

(***************************************************************************)
(* The bind functions.  Each returns what running it does: the panic it    *)
(* raises (err), the binder calls and field assignments it makes (log),    *)
(* the subscriptions it installs (subs), the models afterwards (mdl) and   *)
(* the evaluations it performed (evals).                                   *)
(***************************************************************************)
Ev(op, v) == [op |-> op, v |-> v]

DomCallback(elem, attr) ==
    [kind |-> "dom", elem |-> elem, attr |-> attr, tmodel |-> NoModel,
     field |-> "", bstr |-> <<>>]

AttrCallback(elem, attr, tm, field, bstr) ==
    [kind |-> "attr", elem |-> elem, attr |-> attr, tmodel |-> tm,
     field |-> field, bstr |-> bstr]

\* watchModel: one subscription per bindable, on (owning model, field).
watchModel(binds, root, bs, callback) ==
    [i \in 1..Len(binds) |->
        [model |-> binds[i].model, field |-> binds[i].name, root |-> root,
         scope |-> bs, cb |-> callback]]

watchModelAlways(binds, root, bs, callback, once) ==
    watchModel(binds, root, bs, callback)

\* The "if !once" around watchModel (binding.go 397 and 444).
watchUnlessOnce(binds, root, bs, callback, once) ==
    IF once THEN <<>> ELSE watchModel(binds, root, bs, callback)

EvalRec(bstr, bexpr, s, mdl, r) ==
    [bstr |-> bstr, bexpr |-> bexpr, scope |-> s, mdl |-> mdl, res |-> r]

\* The bind-string evaluateBindString reports when the evaluation fails.
ReportedBindString(bstr, fragment) == fragment

evalOrPanic(bstr, fragment, r) ==
    [res |-> r,
     err |-> IF r.err # NoErr
             THEN bindStringPanic(r.err, ReportedBindString(bstr, fragment))
             ELSE NoPanic]

evaluateBindString(bstr, fragment, s, mdl, hlp) ==
    evalOrPanic(bstr, fragment, evaluate(TrimSpace(fragment), s, mdl, hlp))

\* The expression part of a DOM bind-string (binding.go 354-361).
DomBexpr(bstr) ==
    IF Len(Split(bstr, "->")) = 1 THEN bstr
    ELSE <<TrimSpace(Split(bstr, "->")[1])>>

watchInstalledNonEmpty(binds) == Len(binds) >= 1

\* binding.go 373: binder.Watch gets its write-back callback when the
\* expression has exactly one bindable.
watchInstalled(binds) == Len(binds) = 1

\* binding.go 373-406: ev is what evaluateBindString returned.
domBindApply(t, mdl, ev) ==
    IF ev.err # NoPanic
    THEN [err |-> ev.err, log |-> <<>>, subs |-> <<>>, mdl |-> mdl,
          evals |-> <<EvalRec(t.bstr, DomBexpr(t.bstr), t.scope, mdl, ev.res)>>]
    ELSE [err |-> NoPanic,
          log |-> (IF watchInstalled(ev.res.blist) THEN <<Ev("Watch", "")>>
                   ELSE <<>>)
                  \o <<Ev("Bind", ev.res.value), Ev("Update", ev.res.value)>>,
          subs |-> watchUnlessOnce(ev.res.blist, ev.res.root, t.scope,
                                   DomCallback(t.elem, t.name), t.once),
          mdl |-> mdl,
          evals |-> <<EvalRec(t.bstr, DomBexpr(t.bstr), t.scope, mdl, ev.res)>>]

processDomBind(t, mdl, hlp) ==
    IF BinderName(t.name) \notin DomBinders
    THEN [err |-> Panic("Dom binder does not exist", BinderName(t.name), t.bstr),
          log |-> <<>>, subs |-> <<>>, mdl |-> mdl, evals |-> <<>>]
    ELSE domBindApply(t, mdl,
             evaluateBindString(t.bstr, DomBexpr(t.bstr), t.scope, mdl, hlp))

RECURSIVE attrBindLoop(_, _, _, _, _)

\* binding.go 430-450 for one field bind: ev is what evaluateBindString
\* returned for valuestr, and acc the effects of the field binds before it.
attrBindApply(t, fbinds, i, hlp, acc, field, valuestr, ev) ==
    IF ev.err # NoPanic
    THEN [acc EXCEPT !.err = ev.err,
                     !.evals = Append(@, EvalRec(t.bstr, valuestr, t.scope,
                                                 acc.mdl, ev.res))]
    ELSE IF ~evaluateObjField(field, t.tmodel, acc.mdl).ok
    THEN [acc EXCEPT !.err = Panic("No such field to bind to", field, t.bstr),
                     !.evals = Append(@, EvalRec(t.bstr, valuestr, t.scope,
                                                 acc.mdl, ev.res))]
    ELSE IF ~AssignableTo(TypeOf(ev.res.value), FieldType(field))
    THEN [acc EXCEPT !.err = Panic("Unassignable, incompatible types", field, t.bstr),
                     !.evals = Append(@, EvalRec(t.bstr, valuestr, t.scope,
                                                 acc.mdl, ev.res))]
    ELSE attrBindLoop(t, fbinds, i + 1, hlp,
             [err |-> NoPanic,
              evals |-> Append(acc.evals,
                               EvalRec(t.bstr, valuestr, t.scope, acc.mdl, ev.res)),
              mdl |-> [acc.mdl EXCEPT ![t.tmodel][field] = ev.res.value],
              log |-> Append(acc.log, Ev("Set", ev.res.value)),
              subs |-> acc.subs \o
                       watchUnlessOnce(ev.res.blist, ev.res.root, t.scope,
                                       AttrCallback(t.elem, t.name, t.tmodel,
                                                    field, t.bstr), t.once)])

\* The loop over the field binds of an attribute bind (binding.go 414-451).
attrBindLoop(t, fbinds, i, hlp, acc) ==
    IF i > Len(fbinds) \/ acc.err # NoPanic THEN acc
    ELSE IF i = Len(fbinds) /\ fbinds[i] = <<>>
    THEN attrBindLoop(t, fbinds, i + 1, hlp, acc)
    ELSE IF Len(Split(fbinds[i], ":")) # 2
    THEN [acc EXCEPT !.err =
             Panic("There should be one : in each attribute bind", "", t.bstr)]
    ELSE attrBindApply(t, fbinds, i, hlp, acc,
             TrimSpace(Split(fbinds[i], ":")[1]),
             <<TrimSpace(Split(fbinds[i], ":")[2])>>,
             evaluateBindString(t.bstr, <<TrimSpace(Split(fbinds[i], ":")[2])>>,
                                t.scope, acc.mdl, hlp))

processAttrBind(t, mdl, hlp) ==
    attrBindLoop(t, Split(t.bstr, ";"), 1, hlp,
                 [err |-> NoPanic, log |-> <<>>, subs |-> <<>>, mdl |-> mdl,
                  evals |-> <<>>])

\* binding.go 373-381: the write-back callback a DOM bind hands to
\* binder.Watch captures fmodel, the field location of its one bindable.
binderWatch(t, r) ==
    IF /\ t.kind = "dom"
       /\ r.err = NoPanic
       /\ r.evals # <<>>
       /\ watchInstalled(r.evals[1].res.blist)
    THEN {[elem |-> t.elem, attr |-> t.name, fmodel |-> r.evals[1].res.blist[1]]}
    ELSE {}

\* fmodel.CanSet(): the Value of a field of the model the pointer leads to
\* is settable; the Value of a method is not.
CanSet(fmodel) == fmodel.fn = ""

\* The callback of binder.Watch (binding.go 375-380), newVal being a string.
writeBack(fmodel, newVal, mdl) ==
    IF ~CanSet(fmodel)
    THEN [err |-> Panic("Cannot set field.", fmodel.name, <<>>), mdl |-> mdl]
    ELSE IF ~AssignableTo("string", FieldType(fmodel.name))
    THEN [err |-> Panic("reflect.Set: value of type string is not assignable",
                        fmodel.name, <<>>),
          mdl |-> mdl]
    ELSE [err |-> NoPanic,
          mdl |-> [mdl EXCEPT ![fmodel.model][fmodel.name] = newVal]]

\* The fn a guarded task wraps.
bindFn(t, mdl, hlp) ==
    IF t.kind = "attr" THEN processAttrBind(t, mdl, hlp)
    ELSE processDomBind(t, mdl, hlp)

(***************************************************************************)
(* State.                                                                  *)
(***************************************************************************)
VARIABLES
    children,     \* the element tree: element -> sequence of child elements
    attrs,        \* element -> its bind attributes, <<[name, bstr]>>
    markers,      \* the prevention markers set on elements
    models,       \* model reference -> field -> value
    nTagModels,   \* number of NewModel calls made
    helpers,      \* the helper table: name -> function
    subs,         \* the watch subscriptions installed, in order
    stack,        \* the Bind calls in progress, innermost last
    pending,      \* subscriptions (indexes) whose callback is still to run
    binderLog,    \* (element, attribute) -> binder calls and field assignments
    applied,      \* (element, attribute) -> times its bind function returned
    ran,          \* (element, attribute) -> the once flags its bind function ran with
    trace,        \* task executions of the current top-level Bind, in order
    lastError,    \* the last panic raised
    lastPrep,     \* what the last bindPrepare returned
    lastEval,     \* the evaluations made by the last expression-evaluating step
    lastCallback, \* the last update callback invoked by a watch
    passes,       \* top-level Bind calls made
    mutations,    \* external field mutations made
    watches,      \* the write-back callbacks handed to binder.Watch
    rootScope     \* the scope of the latest top-level Bind

vars == <<children, attrs, markers, models, nTagModels, helpers, subs, stack,
          pending, binderLog, applied, ran, trace, lastError, lastPrep,
          lastEval, lastCallback, passes, mutations, watches, rootScope>>

Slots == Elems \X AttrNames

A(name, bstr) == [name |-> name, bstr |-> bstr]

NoAttrs == [e \in Elems |-> <<>>]

Tree(at, mk) == [attrs |-> at, markers |-> mk]

\* The trees bound: each gives the bind attributes of the elements and the
\* markers already on them (the "all" marker is what preventAllBinding
\* leaves on an element).
Scenarios ==
    { Tree([NoAttrs EXCEPT
              !["a"] = <<A("bind-text", <<"done">>)>>,
              !["a1"] = <<A("bind-visible", <<"not(state)">>)>>,
              !["t1"] = <<A("bind", <<"entry", ":", "done">>)>>,
              !["i1"] = <<A("bind-text", <<"entry">>)>>,
              !["t2"] = <<A("bind", <<"entry", ":", "entry", ";">>)>>], {}),
      Tree([NoAttrs EXCEPT
              !["a"] = <<A("bind-text", <<"toggle()">>)>>,
              !["a1"] = <<A("bind-text", <<"done">>),
                          A("bind-visible", <<"destroy", "->", "out">>)>>,
              !["t1"] = <<A("bind", <<"entry", ":", "same(done)">>)>>,
              !["i1"] = <<A("bind-visible", <<"done">>)>>],
           {<<"a1", "all">>}),
      Tree([NoAttrs EXCEPT
              !["a"] = <<A("bind-text", <<"not(true)">>)>>,
              !["a1"] = <<A("bind-text", <<"done()">>)>>], {}),
      Tree([NoAttrs EXCEPT
              !["a"] = <<A("bind-visible", <<"eq(done, state)">>)>>,
              !["a1"] = <<A("bind-text", <<"eq(done, done)">>)>>,
              !["t1"] = <<A("bind", <<"entry", ":", "destroy">>)>>,
              !["i1"] = <<A("bind-nosuch", <<"done">>)>>], {}),
      Tree([NoAttrs EXCEPT
              !["a"] = <<A("bind-text", <<"not(destroy)">>),
                         A("bind-visible", <<"eq(destroy, done)">>)>>], {}),
      Tree([NoAttrs EXCEPT
              !["a"] = <<A("bind-text", <<"eq(same(done), done)">>)>>,
              !["a1"] = <<A("bind-text", <<"done">>),
                          A("bind-visible", <<"destroy", "->", "out">>)>>],
           {}),
      Tree([NoAttrs EXCEPT
              !["a"] = <<A("bind-text", <<"not(done)">>)>>,
              !["t1"] = <<A("bind", <<"entry", ":", "state">>)>>,
              !["i1"] = <<A("bind-visible", <<"not(entry)">>)>>,
              !["t2"] = <<A("bind-text", <<"done">>)>>], {}),
      Tree([NoAttrs EXCEPT
              !["a"] = <<A("bind-text", <<"done">>)>>,
              !["a1"] = <<A("bind", <<"entry", ":", "done">>)>>], {}),
      Tree([NoAttrs EXCEPT
              !["a"] = <<A("bind-if", <<"not(true)">>),
                         A("bind-text", <<"done">>)>>,
              !["a1"] = <<A("bind-visible", <<"done">>)>>], {}) }

NoEvals == <<>>
NoCallback == [sub |-> 0, value |-> Invalid, mdl |-> <<>>, at |-> 0]
NoPrep == PrepStart(0)

InitModels ==
    [m \in ModelRefs |->
        IF m = PageModel THEN [done |-> "true", state |-> "true"]
        ELSE IF m = AuxModel THEN [done |-> "false"]
        ELSE NewModel]

\* defaultHelpers(): the helpers every engine starts with.
defaultHelpers == [n \in HelperFns |-> n]

Init ==
    /\ children = InitChildren
    /\ \E tree \in Scenarios : attrs = tree.attrs /\ markers = tree.markers
    /\ models = InitModels
    /\ nTagModels = 0
    /\ helpers = defaultHelpers
    /\ subs = <<>>
    /\ stack = <<>>
    /\ pending = <<>>
    /\ binderLog = [sl \in Slots |-> <<>>]
    /\ applied = [sl \in Slots |-> 0]
    /\ ran = [sl \in Slots |-> {}]
    /\ trace = <<>>
    /\ lastError = NoPanic
    /\ lastPrep = NoPrep
    /\ watches = {}
    /\ rootScope = <<>>
    /\ lastEval = NoEvals
    /\ lastCallback = NoCallback
    /\ passes = 0
    /\ mutations = 0

Idle == stack = <<>> /\ pending = <<>>

\* The orders in which Go's map iteration can yield the attributes of an
\* element: as written or reversed; one order when no element has two.
AttrOrders ==
    IF \E e \in Elems : Len(attrs[e]) > 1 THEN BOOLEAN ELSE {FALSE}

\* Custom tags still in the document: each may get a NewModel call in a pass.
AttachedCustom == {e \in Custom : jqExists(children, e)}

Frame(prep, relem) == [bt |-> prep.bt, cet |-> prep.cet, relem |-> relem]

Top == stack[Len(stack)]

SetTop(f) == [stack EXCEPT ![Len(stack)] = f]

(***************************************************************************)
(* Bind, BindModels and bindWithScope.  bindWithScope runs bindPrepare and *)
(* then the tasks, one per step: the bind tasks first, then the custom-    *)
(* element tasks.  A panic unwinds every Bind call in progress.            *)
(***************************************************************************)
\* A task execution: what ran, on which element, in the Bind call on which
\* root element (frame), whether the element was in the document then, and
\* whether the task panicked.
TaskEvent(kind, elem, attr, frame, panicked) ==
    [ev |-> kind, elem |-> elem, attr |-> attr, frame |-> frame,
     attached |-> jqExists(children, elem), panicked |-> panicked]

nextTaskCustomFirst(f) ==
    IF f.cet # <<>> THEN "custom" ELSE IF f.bt # <<>> THEN "bind" ELSE "return"

\* What bindWithScope does next with the task lists left (binding.go 593-599):
\* every bind task, then every custom-element task, then it returns.
nextTask(f) ==
    IF f.bt # <<>> THEN "bind" ELSE IF f.cet # <<>> THEN "custom" ELSE "return"

\* binding.go 592: prep is what bindPrepare returned.
enterPass(relem, prep) ==
    /\ nTagModels' = prep.n
    /\ lastPrep' = prep
    /\ lastError' = prep.err
    /\ stack' = IF prep.err # NoPanic THEN <<>>
                ELSE Append(stack, Frame(prep, relem))

bindWithScope(relem, once, bindrelem, s, rev) ==
    enterPass(relem, bindPrepare(relem, s, once, bindrelem, children, attrs,
                                 rev, PrepStart(nTagModels)))

StartPass(once, bindrelem, s, rev) ==
    /\ Idle
    /\ passes < MaxPasses
    /\ nTagModels + Cardinality(AttachedCustom) <= MaxTagModels
    /\ bindWithScope(Root, once, bindrelem, s, rev)
    /\ passes' = passes + 1
    /\ trace' = <<>>
    /\ lastEval' = NoEvals
    /\ lastCallback' = NoCallback
    /\ rootScope' = s
    /\ UNCHANGED <<children, attrs, markers, models, helpers, subs, pending,
                   binderLog, applied, ran, mutations, watches>>

Bind ==
    /\ Idle
    /\ \E model \in {PageModel, NilPtr, NoModel}, once \in BOOLEAN,
          bindrelem \in BOOLEAN, rev \in AttrOrders :
         StartPass(once, bindrelem,
                   scope_merge(newModelScope(model), BaseScope), rev)

newModelsScope(mods) ==
    LET keep == {i \in 1..Len(mods) : mods[i] # NoModel}
        RECURSIVE build(_)
        build(i) == IF i > Len(mods) THEN <<>>
                    ELSE (IF i \in keep THEN <<ModelTable(mods[i])>> ELSE <<>>)
                         \o build(i + 1)
    IN build(1)

BindModels ==
    /\ Idle
    /\ \E mods \in {<<NoModel, AuxModel, PageModel>>}, once \in BOOLEAN :
         StartPass(once, FALSE, scope_merge(newModelsScope(mods), BaseScope),
                   FALSE)

\* fn(elem, bindattr, bindstr) and preventBinding(elem, bindattr) in
\* wrapBindCall: r is what the bind function did.
applyBind(t, r) ==
    /\ models' = r.mdl
    /\ binderLog' = [binderLog EXCEPT ![<<t.elem, t.name>>] = @ \o r.log]
    /\ subs' = subs \o r.subs
    /\ lastEval' = r.evals
    /\ watches' = watches \cup binderWatch(t, r)
    /\ children' = IF t.kind = "dom"
                   THEN binderEffect(children, BinderName(t.name), t.elem, r.log)
                   ELSE children
    /\ ran' = [ran EXCEPT ![<<t.elem, t.name>>] = @ \cup {t.once}]
    /\ trace' = Append(trace, TaskEvent("bind", t.elem, t.name, Top.relem,
                                       r.err # NoPanic))
    /\ IF r.err # NoPanic
       THEN /\ lastError' = r.err
            /\ stack' = <<>>
            /\ UNCHANGED <<markers, applied>>
       ELSE /\ markers' = preventBinding(markers, t.elem, t.name)
            /\ applied' = [applied EXCEPT ![<<t.elem, t.name>>] = @ + 1]
            /\ stack' = SetTop([Top EXCEPT !.bt = Tail(@)])
            /\ UNCHANGED lastError

\* One bind task of the innermost Bind: the guard of wrapBindCall, the bind
\* function, and the marker.
wrapBindCall(t) ==
    IF bindingPrevented(markers, t.elem, t.name)
    THEN /\ stack' = SetTop([Top EXCEPT !.bt = Tail(@)])
         /\ trace' = Append(trace, TaskEvent("skip", t.elem, t.name, Top.relem,
                                            FALSE))
         /\ UNCHANGED <<children, markers, models, subs, binderLog, applied,
                        ran, lastError, lastEval, watches>>
    ELSE applyBind(t, bindFn(t, models, helpers))

RunBindTask ==
    /\ stack # <<>>
    /\ nextTask(Top) = "bind"
    /\ wrapBindCall(Head(Top.bt))
    /\ UNCHANGED <<attrs, nTagModels, helpers, pending, lastPrep,
                   lastCallback, passes, mutations, rootScope>>

\* The tags whose provider's PrepareTagContents may return an error.
FailingTags == {"t1"}

PrepareErrors(elem) == IF elem \in FailingTags THEN BOOLEAN ELSE {FALSE}

afterPrepareTagContentsReturn(perr) == IF perr THEN "return" ELSE "bind"

\* binding.go 550-555: after PrepareTagContents, with or without an error
\* (which elemError reports on the element), the task goes on to the nested
\* Bind.
afterPrepareTagContents(perr) == "bind"

\* A custom-element task, first half: PrepareTagContents (perr: it returned
\* an error, which elemError reports on the element), then the nested
\* b.Bind(elem, customTagModel, once, false) up to the end of its bindPrepare.
CustomElemBegin ==
    /\ stack # <<>>
    /\ nextTask(Top) = "custom"
    /\ \E perr \in PrepareErrors(Head(Top.cet).elem), rev \in AttrOrders :
        LET c == Head(Top.cet)
        IN /\ trace' = Append(trace,
                  TaskEvent(IF perr THEN "prepare-error" ELSE "prepare", c.elem, "",
                            Top.relem, FALSE))
           /\ IF afterPrepareTagContents(perr) = "bind"
              THEN bindWithScope(c.elem, c.once, FALSE,
                       scope_merge(newModelScope(c.tmodel), BaseScope), rev)
              ELSE /\ stack' = SetTop([Top EXCEPT !.cet = Tail(@)])
                   /\ UNCHANGED <<nTagModels, lastError, lastPrep>>
    /\ UNCHANGED <<children, attrs, markers, models, helpers, subs, pending,
                   binderLog, applied, ran, lastEval, lastCallback, passes,
                   mutations, watches, rootScope>>

\* A custom-element task, second half: the nested Bind has returned and the
\* element is replaced by its contents.
CustomElemEnd ==
    /\ Len(stack) > 1
    /\ nextTask(Top) = "return"
    /\ LET below == SubSeq(stack, 1, Len(stack) - 1)
           parent == below[Len(below)]
           c == Head(parent.cet)
       IN /\ children' = ReplaceWithContents(children, c.elem)
          /\ trace' = Append(trace, TaskEvent("replace", c.elem, "", parent.relem,
                                            FALSE))
          /\ stack' = [below EXCEPT ![Len(below)] = [parent EXCEPT !.cet = Tail(@)]]
    /\ UNCHANGED <<attrs, markers, models, nTagModels, helpers, subs, pending,
                   binderLog, applied, ran, lastError, lastPrep, lastEval,
                   lastCallback, passes, mutations, watches, rootScope>>

\* The top-level Bind returns.
BindReturn ==
    /\ Len(stack) = 1
    /\ nextTask(Top) = "return"
    /\ stack' = <<>>
    /\ UNCHANGED <<children, attrs, markers, models, nTagModels, helpers, subs,
                   pending, binderLog, applied, ran, trace, lastError,
                   lastPrep, lastEval, lastCallback, passes, mutations,
                   watches, rootScope>>

(***************************************************************************)
(* The reactive watcher.  An external mutation of a model field notifies   *)
(* every subscription on (model, field), in the order they were installed; *)
(* each notification re-evaluates the root expression and hands the value  *)
(* to the update callback.  The callbacks of one mutation run to the end   *)
(* before anything else does.                                              *)
(***************************************************************************)
FieldValues(f) == IF f = "state" THEN {"true", "str"} ELSE Bools

\* The models the application mutates from outside the engine.
MutableModels == {PageModel}

RECURSIVE subsOnFrom(_, _, _, _)
subsOnFrom(ss, i, m, f) ==
    IF i > Len(ss) THEN <<>>
    ELSE (IF ss[i].model = m /\ ss[i].field = f THEN <<i>> ELSE <<>>)
         \o subsOnFrom(ss, i + 1, m, f)

\* The subscriptions watching field f of model m.
SubsOn(ss, m, f) == subsOnFrom(ss, 1, m, f)

Mutate ==
    /\ Idle
    /\ mutations < MaxMutations
    /\ \E m \in MutableModels : \E f \in DOMAIN models[m] :
         \E v \in FieldValues(f) \ {models[m][f]} :
            /\ models' = [models EXCEPT ![m][f] = v]
            /\ pending' = SubsOn(subs, m, f)
    /\ mutations' = mutations + 1
    /\ lastError' = NoPanic
    /\ lastEval' = NoEvals
    /\ lastCallback' = NoCallback
    /\ UNCHANGED <<children, attrs, markers, nTagModels, helpers, subs, stack,
                   binderLog, applied, ran, trace, lastPrep, passes, watches,
                   rootScope>>

watchResultChangedField(sub, mdl, hlp) ==
    [v |-> mdl[sub.model][sub.field], blist |-> <<>>, err |-> NoErr,
     calls |-> <<>>, looked |-> <<>>]

\* newResult, _, _ := bs.evaluateRec(root)
watchResult(sub, mdl, hlp) == evaluateRec(sub.root, sub.scope, mdl, hlp)

deliverableAlways(r) == TRUE

\* newResult.Interface() returns only for a valid Value: it panics on the
\* zero Value a failed evaluation leaves (binding.go 332-333).
deliverable(r) == r.err = NoErr /\ r.v # Invalid

\* A change notification reached the binding; its re-evaluation succeeded or not.
Notified(r) ==
    Ev("Notified", IF r.err = NoErr /\ r.v # Invalid THEN "ok" ELSE "failed")

\* The callback of an attribute bind (binding.go 445-449).
attrCallback(i, sub, r, log) ==
    IF ~AssignableTo(TypeOf(r.v), FieldType(sub.cb.field))
    THEN /\ lastError' = Panic("Unassignable, incompatible types",
                               sub.cb.field, sub.cb.bstr)
         /\ pending' = <<>>
         /\ binderLog' = log
         /\ lastCallback' = [sub |-> i, value |-> r.v, mdl |-> models,
                          at |-> mutations]
         /\ UNCHANGED models
    ELSE /\ models' = [models EXCEPT ![sub.cb.tmodel][sub.cb.field] = r.v]
         /\ lastCallback' = [sub |-> i, value |-> r.v, mdl |-> models,
                          at |-> mutations]
         /\ binderLog' = [log EXCEPT ![<<sub.cb.elem, sub.cb.attr>>] =
                             Append(@, Ev("Set", r.v))]
         /\ pending' = (IF models[sub.cb.tmodel][sub.cb.field] # r.v
                        THEN SubsOn(subs, sub.cb.tmodel, sub.cb.field) ELSE <<>>)
                       \o Tail(pending)
         /\ UNCHANGED lastError

\* The callback of a DOM bind (binding.go 398-404).
domCallback(i, sub, r, log) ==
    /\ binderLog' = [log EXCEPT ![<<sub.cb.elem, sub.cb.attr>>] =
                        Append(@, Ev("Update", r.v))]
    /\ lastCallback' = [sub |-> i, value |-> r.v, mdl |-> models,
                          at |-> mutations]
    /\ pending' = Tail(pending)
    /\ UNCHANGED <<models, lastError>>

\* The closure of watchModel, r being what evaluateRec returned: the
\* notification is noted on the binding, then callback(newResult.Interface()).
notify(i, sub, r) ==
    /\ lastEval' = <<EvalRec(sub.cb.bstr, <<>>, sub.scope, models,
                            WithRoot(sub.root, r))>>
    /\ IF ~deliverable(r)
       THEN /\ lastError' = Panic("call of reflect.Value.Interface on zero Value",
                                  r.err.sym, <<>>)
            /\ pending' = <<>>
            /\ binderLog' = [binderLog EXCEPT ![<<sub.cb.elem, sub.cb.attr>>] =
                                Append(@, Notified(r))]
            /\ UNCHANGED <<models, lastCallback>>
       ELSE IF sub.cb.kind = "dom"
       THEN domCallback(i, sub, r,
                [binderLog EXCEPT ![<<sub.cb.elem, sub.cb.attr>>] =
                    Append(@, Notified(r))])
       ELSE attrCallback(i, sub, r,
                [binderLog EXCEPT ![<<sub.cb.elem, sub.cb.attr>>] =
                    Append(@, Notified(r))])

\* One notification: the closure watchModel installs (binding.go 329-334).
FireWatch ==
    /\ pending # <<>>
    /\ notify(Head(pending), subs[Head(pending)],
              watchResult(subs[Head(pending)], models, helpers))
    /\ UNCHANGED <<children, attrs, markers, nTagModels, helpers, subs, stack,
                   applied, ran, trace, lastPrep, passes, mutations, watches,
                   rootScope>>

\* What the user types into a bound element.
InputValues == {"str"}

\* A binder calls the write-back callback it was given: the captured field
\* is assigned, and the assignment is a change of the field like any other.
BinderInput ==
    /\ Idle
    /\ mutations < MaxMutations
    /\ \E w \in watches, newVal \in InputValues :
         LET r == writeBack(w.fmodel, newVal, models) IN
         /\ lastError' = r.err
         /\ models' = r.mdl
         /\ pending' = IF r.mdl # models
                       THEN SubsOn(subs, w.fmodel.model, w.fmodel.name)
                       ELSE <<>>
    /\ mutations' = mutations + 1
    /\ lastEval' = NoEvals
    /\ lastCallback' = NoCallback
    /\ UNCHANGED <<children, attrs, markers, nTagModels, helpers, subs, stack,
                   binderLog, applied, ran, trace, lastPrep, passes, watches,
                   rootScope>>

(***************************************************************************)
(* RegisterHelper.                                                         *)
(***************************************************************************)
HelperCandidates ==
    { [isFunc |-> TRUE, numOut |-> 1, id |-> "eq"],
      [isFunc |-> TRUE, numOut |-> 2, id |-> "eq"],
      [isFunc |-> TRUE, numOut |-> 0, id |-> "eq"],
      [isFunc |-> FALSE, numOut |-> 0, id |-> ""] }

(* newFuncSymbol: a non-function and a function with more than one return  *)
(* value panic; otherwise the symbol wraps the function.                   *)
newFuncSymbol(name, fn) ==
    IF ~fn.isFunc
    THEN [err |-> Panic("Can't create funcSymbol from a non-function.", name, <<>>),
          fn |-> ""]
    ELSE IF fn.numOut > 1
    THEN [err |-> Panic("funcSymbol cannot have more than 1 return value.",
                        name, <<>>),
          fn |-> ""]
    ELSE [err |-> NoPanic, fn |-> fn.id]

(* registerFunc: st.m[name] = newFuncSymbol(name, fn); a panic of the      *)
(* right-hand side leaves the map as it was.                               *)
registerFunc(name, fn, hlp) ==
    LET fs == newFuncSymbol(name, fn) IN
    IF fs.err # NoPanic
    THEN [err |-> fs.err, m |-> hlp]
    ELSE [err |-> NoPanic,
          m |-> [n \in DOMAIN hlp \cup {name} |->
                    IF n = name THEN fs.fn ELSE hlp[n]]]

registerHelperNoExistCheck(name, fn, hlp) ==
    IF ~fn.isFunc
    THEN [err |-> Panic("Invalid helper, must be a function.", name, <<>>),
          m |-> hlp]
    ELSE IF fn.numOut = 0
    THEN [err |-> Panic("A helper must return something.", name, <<>>),
          m |-> hlp]
    ELSE registerFunc(name, fn, hlp)

(* The body of RegisterHelper: the panic raised, if any, and the helper    *)
(* table afterwards.                                                       *)
registerHelper(name, fn, hlp) ==
    IF ~fn.isFunc
    THEN [err |-> Panic("Invalid helper, must be a function.", name, <<>>),
          m |-> hlp]
    ELSE IF fn.numOut = 0
    THEN [err |-> Panic("A helper must return something.", name, <<>>),
          m |-> hlp]
    ELSE IF ~mapSymbolTable_lookup(name, hlp).ok
    THEN registerFunc(name, fn, hlp)
    ELSE [err |-> Panic("Helper already exists.", name, <<>>), m |-> hlp]

HelperNames == {"done", "not"}

RegisterHelper ==
    /\ Idle
    /\ passes = 0 /\ mutations = 0
    /\ Cardinality(DOMAIN helpers) < MaxHelpers
    /\ \E name \in HelperNames, fn \in HelperCandidates :
         LET r == registerHelper(name, fn, helpers) IN
         /\ lastError' = r.err
         /\ helpers' = r.m
    /\ UNCHANGED <<children, attrs, markers, models, nTagModels, subs, stack,
                   pending, binderLog, applied, ran, trace, lastPrep, lastEval,
                   lastCallback, passes, mutations, watches, rootScope>>

Next ==
    \/ Bind
    \/ BindModels
    \/ RunBindTask
    \/ CustomElemBegin
    \/ CustomElemEnd
    \/ BindReturn
    \/ Mutate
    \/ FireWatch
    \/ BinderInput
    \/ RegisterHelper

Spec == Init /\ [][Next]_vars

(***************************************************************************)
(* Properties.                                                             *)
(***************************************************************************)

\* C1 (as stated): across the whole tree, custom-tag contents included, every
\* bind task runs before any custom-element task runs.
C1_AllBindTasksBeforeCustom ==
    \A i, j \in 1..Len(trace) :
        (trace[i].ev \in {"prepare", "prepare-error", "replace"}
         /\ trace[j].ev \in {"bind", "skip"}) => j < i

\* C1 (amended): the bind tasks one bindPrepare pass collected all run
\* before any custom-element task of that pass, and the bind tasks of the
\* elements inside a custom tag run within that tag's custom-element task,
\* after its PrepareTagContents and before the tag is replaced.
C1_BindTasksBeforeCustomPerPass ==
    /\ \A i, j \in 1..Len(trace) :
          (i < j
           /\ trace[i].ev \in {"prepare", "prepare-error", "replace"}
           /\ trace[j].ev \in {"bind", "skip"})
              => trace[j].frame # trace[i].frame
    /\ \A j \in 1..Len(trace) :
          (trace[j].ev \in {"bind", "skip"} /\ trace[j].frame # Root) =>
              /\ \E i \in 1..(j - 1) :
                    /\ trace[i].ev \in {"prepare", "prepare-error"}
                    /\ trace[i].elem = trace[j].frame
              /\ \A i \in 1..(j - 1) :
                    ~(trace[i].ev = "replace" /\ trace[i].elem = trace[j].frame)

\* A pass ran a bind task at the top level, then a bind task inside the
\* custom tag t1, and replaced t1.
C1_Witness ==
    /\ \E j \in 1..Len(trace) : trace[j].ev = "bind" /\ trace[j].frame = Root
    /\ \E j \in 1..Len(trace) : trace[j].ev = "bind" /\ trace[j].frame = "t1"
    /\ \E j \in 1..Len(trace) : trace[j].ev = "replace" /\ trace[j].elem = "t1"

\* C2: no bind function runs on an element that a custom-element task has
\* already replaced; a custom tag, the only kind of element such a task takes
\* out of the document, is in the document when its bind task runs.
C2_NoBindOnReplacedElement ==
    \A j \in 1..Len(trace) :
        trace[j].ev = "bind" =>
            /\ trace[j].elem \in Custom => trace[j].attached
            /\ \A i \in 1..(j - 1) :
                  ~(trace[i].ev = "replace" /\ trace[i].elem = trace[j].elem)

\* The attribute bind of the custom tag t1 ran, and later t1 was replaced.
C2_Witness ==
    \E i, j \in 1..Len(trace) :
        /\ i < j
        /\ trace[i].ev = "bind" /\ trace[i].elem = "t1" /\ ~trace[i].panicked
        /\ trace[j].ev = "replace" /\ trace[j].elem = "t1"
        /\ ~jqExists(children, "t1")

\* C3: the guard lets the bind function of an (element, attribute) pair be
\* applied at most once, and exactly once when a guarded task for the pair
\* has run to completion on an element without the "all" marker; the pair's
\* marker is set exactly when the function was applied; an element carrying
\* the "all" marker is never bound.
C3_AppliedOncePerPair ==
    \A sl \in Slots :
        /\ applied[sl] <= 1
        /\ (applied[sl] = 1) <=> (sl \in markers)
        /\ <<sl[1], "all">> \in markers => applied[sl] = 0
        /\ sl[2] \in DomBindAttrs =>
              Cardinality({k \in 1..Len(binderLog[sl]) :
                              binderLog[sl][k].op = "Bind"}) = applied[sl]
        /\ \A j \in 1..Len(trace) :
              (/\ trace[j].ev \in {"bind", "skip"}
               /\ <<trace[j].elem, trace[j].attr>> = sl
               /\ ~trace[j].panicked
               /\ <<sl[1], "all">> \notin markers) => applied[sl] = 1

\* A second pass met a pair that the first pass had bound, and skipped it.
C3_Witness ==
    /\ passes = 2
    /\ \E j \in 1..Len(trace) :
          /\ trace[j].ev = "skip"
          /\ <<trace[j].elem, "all">> \notin markers
          /\ applied[<<trace[j].elem, trace[j].attr>>] = 1

C5_CallbackGetsFreshValue ==
    lastCallback.sub # 0 =>
        /\ lastCallback.value =
              evaluateRec(subs[lastCallback.sub].root, subs[lastCallback.sub].scope,
                          lastCallback.mdl, helpers).v
        /\ lastCallback.at = mutations =>
              lastCallback.mdl[PageModel] = models[PageModel]

\* A callback got the value of a call expression, which differs from the
\* value of the field that changed.
C5_Witness ==
    /\ lastCallback.sub # 0
    /\ lastCallback.at = mutations
    /\ subs[lastCallback.sub].root.typ = CallExpr
    /\ subs[lastCallback.sub].model = PageModel
    /\ lastCallback.value # models[PageModel][subs[lastCallback.sub].field]

\* C6: a binding made with once = TRUE installs no subscription: every
\* subscription belongs to a pair that was bound with once = FALSE, and a
\* pair only ever bound with once = TRUE gets no notification, no Update
\* beyond the first and no assignment beyond the first, whatever changes.
C6_OnceInstallsNoWatch ==
    /\ \A i \in 1..Len(subs) :
          FALSE \in ran[<<subs[i].cb.elem, subs[i].cb.attr>>]
    /\ \A sl \in Slots :
          ran[sl] = {TRUE} =>
              /\ \A k \in 1..Len(binderLog[sl]) : binderLog[sl][k].op # "Notified"
              /\ Len(SelectSeq(binderLog[sl], LAMBDA e : e.op = "Update")) <= 1
              /\ Len(SelectSeq(binderLog[sl], LAMBDA e : e.op = "Set"))
                    <= Len(Split(attrs[sl[1]][1].bstr, ";"))

\* The DOM bind of "done" on a and the attribute bind "entry : done" on t1
\* were made with once = TRUE, done has changed since, and neither binding
\* was told.
C6_Witness ==
    /\ ran[<<"a", "bind-text">>] = {TRUE}
    /\ ran[<<"t1", "bind">>] = {TRUE}
    /\ attrs["a"] = <<A("bind-text", <<"done">>)>>
    /\ binderLog[<<"a", "bind-text">>] =
          <<Ev("Watch", ""), Ev("Bind", "true"), Ev("Update", "true")>>
    /\ binderLog[<<"t1", "bind">>] = <<Ev("Set", "true")>>
    /\ models[PageModel].done = "false"
    /\ pending = <<>>

\* C7: the table of a nil model pointer reports every name as not found and
\* raises nothing; in the scope Bind builds for such a model a name resolves
\* exactly when the helper table has it, and then to the helper, so an
\* expression over helpers and literals evaluates normally.
C7_NilModelLookupNotFound ==
    LET nilScope == scope_merge(newModelScope(NilPtr), BaseScope)
        names == {"done", "state", "entry", "destroy", "toggle", "same",
                  "not", "eq"}
    IN /\ \A n \in names :
             modelSymbolTable_lookup(ModelTable(NilPtr), n, models) =
                 [ok |-> FALSE, sym |-> NoSym]
       /\ \A n \in names :
             IF n \in DOMAIN helpers
             THEN /\ scope_lookup(nilScope, n, models, helpers).err = NoErr
                  /\ scope_lookup(nilScope, n, models, helpers).idx = 2
                  /\ scope_lookup(nilScope, n, models, helpers).sym.kind = "func"
             ELSE scope_lookup(nilScope, n, models, helpers).err =
                      ErrOf("Unable to find symbol in the scope", n)
       /\ \A k \in 1..Len(lastEval) :
             lastEval[k].scope = nilScope =>
                 /\ lastEval[k].res.blist = <<>>
                 /\ lastEval[k].res.err.msg = "Unable to find symbol in the scope"
                       => lastEval[k].res.err.sym \notin DOMAIN helpers
                 /\ lastEval[k].res.root = Call("not", <<Val("true")>>)
                       => (lastEval[k].res.err = NoErr
                           /\ lastEval[k].res.value = "false")

\* A bind on a nil model pointer evaluated not(true) through the helper.
C7_Witness ==
    \E k \in 1..Len(lastEval) :
        /\ lastEval[k].scope = scope_merge(newModelScope(NilPtr), BaseScope)
        /\ lastEval[k].res.root = Call("not", <<Val("true")>>)
        /\ lastEval[k].res.calls = <<[name |-> "not", args |-> <<"true">>]>>
        /\ lastEval[k].res.value = "false"

\* C8: scope.lookup returns the symbol of the lowest-index table that has
\* the name, and the resolution error naming the symbol exactly when no
\* table has it; the scopes Bind and BindModels build put the model tables
\* before the one helper table, so a model member shadows a helper of the
\* same name; the scopes held by tasks in progress and by subscriptions keep
\* that shape.
C8_LookupFirstMatch ==
    LET names == {"done", "state", "entry", "destroy", "toggle", "not"}
        built == { scope_merge(newModelScope(PageModel), BaseScope),
                   scope_merge(newModelScope(NilPtr), BaseScope),
                   scope_merge(newModelScope(NoModel), BaseScope),
                   scope_merge(newModelsScope(<<NoModel, AuxModel, PageModel>>),
                               BaseScope) }
        held == {subs[i].scope : i \in 1..Len(subs)}
                \cup UNION { {stack[d].bt[k].scope : k \in 1..Len(stack[d].bt)} :
                             d \in 1..Len(stack) }
        firstMatch(S, n, r, hits) ==
            IF hits # {}
            THEN /\ r.err = NoErr
                 /\ r.idx \in hits
                 /\ \A i \in hits : r.idx <= i
                 /\ r.sym = table_lookup(S[r.idx], n, models, helpers).sym
            ELSE r = [sym |-> NoSym, idx |-> 0,
                      err |-> ErrOf("Unable to find symbol in the scope", n)]
    IN /\ \A S \in built \cup held : \A n \in names :
             firstMatch(S, n, scope_lookup(S, n, models, helpers),
                        {i \in 1..Len(S) :
                            table_lookup(S[i], n, models, helpers).ok})
       /\ \A S \in built \cup held :
             /\ S[Len(S)] = HelperTable
             /\ \A i \in 1..(Len(S) - 1) : S[i].kind = "model"
       /\ "done" \in DOMAIN helpers =>
             scope_lookup(scope_merge(newModelScope(PageModel), BaseScope),
                          "done", models, helpers).sym.kind = "field"

\* A helper named done is registered, and a bind of "done" on the page model
\* got the model's field: its value, and the field as its one dependency.
C8_Witness ==
    /\ "done" \in DOMAIN helpers
    /\ \E k \in 1..Len(lastEval) :
          /\ lastEval[k].scope = scope_merge(newModelScope(PageModel), BaseScope)
          /\ lastEval[k].res.root = Val("done")
          /\ lastEval[k].res.value = models[PageModel].done
          /\ Len(lastEval[k].res.blist) = 1

\* C9: a call expression on a method of the model invokes the method with
\* the evaluated arguments and yields its result; a call expression on a
\* field that is not a function yields the error naming the field and
\* invokes nothing.
C9_CallOnModelMember ==
    \A k \in 1..Len(lastEval) :
        LET ev == lastEval[k]
            root == ev.res.root
            argv == [i \in 1..Len(root.args) |->
                        evaluateRec(root.args[i], ev.scope, ev.mdl, helpers)]
            lk == scope_lookup(ev.scope, root.name, ev.mdl, helpers)
        IN (/\ root.typ = CallExpr
            /\ \A i \in 1..Len(root.args) : argv[i].err = NoErr
            /\ lk.err = NoErr
            /\ lk.sym.kind = "field") =>
               IF lk.sym.fn # ""
               THEN /\ ev.res.calls # <<>>
                    /\ ev.res.calls[Len(ev.res.calls)] =
                          [name |-> root.name,
                           args |-> [i \in 1..Len(root.args) |-> argv[i].v]]
                    /\ ev.res.err = NoErr
                    /\ ev.res.value =
                          callFunc(lk.sym,
                                   [i \in 1..Len(root.args) |-> argv[i].v],
                                   ev.mdl).v
               ELSE /\ ev.res.err =
                          ErrOf("Cannot call, it's not a method", root.name)
                    /\ ev.res.value = Invalid
                    /\ \A c \in 1..Len(ev.res.calls) :
                          ev.res.calls[c].name # root.name

\* same(done) was evaluated on the page model: the method same was invoked
\* with the value of done.
C9_Witness ==
    \E k \in 1..Len(lastEval) :
        /\ lastEval[k].res.root = Call("same", <<Val("done")>>)
        /\ lastEval[k].res.calls =
              <<[name |-> "same", args |-> <<lastEval[k].mdl[PageModel].done>>]>>
        /\ lastEval[k].res.value = "true"

\* C10: bindPrepare does not report an unresolved symbol; the resolution
\* error is raised when the element's bind task runs, and it carries the
\* original bind-string of the attribute.
C10_UnresolvedSymbolAtTaskTime ==
    /\ lastPrep.err.msg # "Unable to find symbol in the scope"
    /\ (/\ lastError.msg = "Unable to find symbol in the scope"
        /\ trace # <<>>
        /\ trace[Len(trace)].ev = "bind"
        /\ trace[Len(trace)].panicked) =>
           \E j \in 1..Len(attrs[trace[Len(trace)].elem]) :
               /\ attrs[trace[Len(trace)].elem][j].name = trace[Len(trace)].attr
               /\ attrs[trace[Len(trace)].elem][j].bstr = lastError.bstr

(***************************************************************************)
(* C11: RegisterHelper rejects with a fatal error a value that is not a    *)
(* function, a function with more than one return value, a function with   *)
(* no return value, and a name that is already registered; a rejected      *)
(* registration leaves the helper table as it was: every registered name   *)
(* still resolves to its original function and the rejected name is not    *)
(* added.  The first conjunct states it of the body of RegisterHelper on   *)
(* every helper table the engine reaches, the second of the steps taken    *)
(* before the first pass and the first mutation, which are registrations.  *)
(***************************************************************************)
C11_RejectedRegistrationKeepsTable ==
    [][ /\ \A name \in HelperNames, fn \in HelperCandidates :
             LET r == registerHelper(name, fn, helpers) IN
             /\ ( \/ ~fn.isFunc
                  \/ fn.numOut > 1
                  \/ fn.numOut = 0
                  \/ name \in DOMAIN helpers ) => r.err # NoPanic
             /\ r.err # NoPanic =>
                  /\ DOMAIN r.m = DOMAIN helpers
                  /\ \A n \in DOMAIN helpers :
                         mapSymbolTable_lookup(n, r.m) =
                             mapSymbolTable_lookup(n, helpers)
        /\ (passes' = 0 /\ mutations' = 0 /\ lastError' # NoPanic) =>
             /\ helpers' = helpers
             /\ lastError'.sym \in DOMAIN helpers' =>
                    lastError'.sym \in DOMAIN helpers
        /\ (passes' = 0 /\ mutations' = 0 /\ lastError' = NoPanic) =>
             /\ DOMAIN helpers \subseteq DOMAIN helpers'
             /\ \A n \in DOMAIN helpers : helpers'[n] = helpers[n]
      ]_vars

C11_Witness ==
    /\ passes = 0 /\ mutations = 0
    /\ lastError.msg = "Helper already exists."
    /\ lastError.sym = "not"
    /\ helpers = defaultHelpers
    /\ mapSymbolTable_lookup("not", helpers).sym.fn = "not"

(***************************************************************************)
(* C12: when PrepareTagContents returns an error for a custom tag, the     *)
(* error is reported on the element and binding continues.  In the trace   *)
(* of a pass that returned, a prepare-error event of tag c is followed by  *)
(* the bind tasks of c's inner content, run by c's nested Bind, then by    *)
(* the replacement of c by its contents, and after that every custom tag   *)
(* that follows c in the same task list is prepared and replaced too.      *)
(***************************************************************************)
C12_PrepareErrorDoesNotStopBinding ==
    ( /\ stack = <<>>
      /\ lastPrep.err = NoPanic
      /\ \A j \in 1..Len(trace) : ~trace[j].panicked ) =>
    \A j \in 1..Len(trace) :
        trace[j].ev = "prepare-error" =>
        LET c == trace[j].elem
            inner == bindPrepare(c, BaseScope, FALSE, FALSE, InitChildren,
                                 attrs, FALSE, PrepStart(0))
            outer == bindPrepare(trace[j].frame, BaseScope, FALSE, FALSE,
                                 InitChildren, attrs, FALSE, PrepStart(0))
        IN \E k \in (j + 1)..Len(trace) :
              /\ trace[k].ev = "replace" /\ trace[k].elem = c
              /\ \A i \in 1..Len(inner.bt) :
                    \E m \in (j + 1)..(k - 1) :
                        /\ trace[m].ev \in {"bind", "skip"}
                        /\ trace[m].elem = inner.bt[i].elem
                        /\ trace[m].attr = inner.bt[i].name
                        /\ trace[m].frame = c
              /\ \A i \in 1..Len(inner.cet) :
                    \E m \in (j + 1)..(k - 1) :
                        /\ trace[m].ev = "replace"
                        /\ trace[m].elem = inner.cet[i].elem
              /\ \A i, i2 \in 1..Len(outer.cet) :
                    (outer.cet[i].elem = c /\ i < i2) =>
                    \E m \in (k + 1)..Len(trace), n \in (k + 1)..Len(trace) :
                        /\ m < n
                        /\ trace[m].ev \in {"prepare", "prepare-error"}
                        /\ trace[m].elem = outer.cet[i2].elem
                        /\ trace[n].ev = "replace"
                        /\ trace[n].elem = outer.cet[i2].elem

C12_Witness ==
    /\ stack = <<>>
    /\ lastPrep.err = NoPanic
    /\ \E j, m, k, n \in 1..Len(trace) :
          /\ j < m /\ m < k /\ k < n
          /\ trace[j].ev = "prepare-error" /\ trace[j].elem = "t1"
          /\ trace[m].ev = "bind" /\ trace[m].elem = "i1"
          /\ trace[m].frame = "t1" /\ ~trace[m].panicked
          /\ trace[k].ev = "replace" /\ trace[k].elem = "t1"
          /\ trace[n].ev = "replace" /\ trace[n].elem = "t3"
    /\ binderLog[<<"i1", "bind-text">>] # <<>>
    /\ jqExists(children, "i1")
    /\ ~jqExists(children, "t1")

C14_WatchIffOneBindable ==
    ( /\ trace # <<>>
      /\ trace[Len(trace)].ev = "bind"
      /\ ~trace[Len(trace)].panicked
      /\ HasBindPrefix(trace[Len(trace)].attr)
      /\ Len(lastEval) = 1
      /\ lastEval[1].bexpr # <<>> ) =>
    LET sl == <<trace[Len(trace)].elem, trace[Len(trace)].attr>>
        log == binderLog[sl]
        L == Len(log)
        n == Len(lastEval[1].res.blist)
        before == IF L >= 3 THEN log[L - 2].op ELSE ""
    IN /\ L >= 2
       /\ log[L].op = "Update" /\ log[L - 1].op = "Bind"
       /\ (n = 1) <=> (before = "Watch")
       /\ Cardinality({k \in 1..L : log[k].op = "Watch"}) <= applied[sl]

C14_Witness ==
    /\ trace # <<>>
    /\ trace[Len(trace)].ev = "bind"
    /\ trace[Len(trace)].elem = "a1"
    /\ trace[Len(trace)].attr = "bind-text"
    /\ Len(lastEval) = 1
    /\ lastEval[1].bexpr = <<"eq(done, done)">>
    /\ Len(lastEval[1].res.blist) = 2
    /\ lastEval[1].res.blist[1] = lastEval[1].res.blist[2]
    /\ binderLog[<<"a1", "bind-text">>] = <<Ev("Bind", "true"), Ev("Update", "true")>>
    /\ \E k \in 1..Len(subs) : subs[k].cb.elem = "a1"

(***************************************************************************)
(* C15: evaluateRec evaluates the arguments of a node strictly left to     *)
(* right before it resolves the node's own name, and the first failing     *)
(* argument ends the evaluation with that argument's error: the names      *)
(* resolved and the functions invoked are then those of the arguments up   *)
(* to and including the failing one, so no later argument is evaluated     *)
(* and the node's name is neither looked up nor invoked.  Without a        *)
(* failing argument the node's name is the last name resolved.             *)
(***************************************************************************)
C15_ArgumentsLeftToRightFailFast ==
    \A k \in 1..Len(lastEval) :
        LET rec == lastEval[k]
            e == rec.res.root
            rs == [i \in 1..Len(e.args) |->
                      evaluateRec(e.args[i], rec.scope, rec.mdl, helpers)]
            failing == {i \in 1..Len(e.args) : rs[i].err # NoErr}
            first == CHOOSE i \in failing : \A i2 \in failing : i <= i2
            RECURSIVE lookedUpTo(_), callsUpTo(_)
            lookedUpTo(i) == IF i = 0 THEN <<>>
                             ELSE lookedUpTo(i - 1) \o rs[i].looked
            callsUpTo(i) == IF i = 0 THEN <<>>
                            ELSE callsUpTo(i - 1) \o rs[i].calls
        IN ~parseExpr(e.name).isLiteral =>
             IF failing # {}
             THEN /\ rec.res.err = rs[first].err
                  /\ rec.res.value = Invalid
                  /\ rec.res.looked = lookedUpTo(first)
                  /\ rec.res.calls = callsUpTo(first)
             ELSE /\ rec.res.looked = Append(lookedUpTo(Len(e.args)), e.name)
                  /\ \A i \in 1..Len(rec.res.calls) :
                         rec.res.calls[i].name = e.name => i = Len(rec.res.calls)

C15_Witness ==
    /\ Len(lastEval) = 1
    /\ lastEval[1].bexpr = <<"eq(destroy, done)">>
    /\ lastEval[1].res.err # NoErr
    /\ lastEval[1].res.looked = <<"destroy">>
    /\ lastEval[1].res.calls = <<>>
    /\ lastError.sym = "destroy"
    /\ scope_lookup(lastEval[1].scope, "done", lastEval[1].mdl, helpers).err = NoErr

(***************************************************************************)
(* C16: for every successfully evaluated expression the bindables list is  *)
(* the post-order sequence (arguments left to right, then the node) of     *)
(* the model members its names resolve to, one entry per occurrence and    *)
(* without deduplication; literals and helper functions add no entry.      *)
(***************************************************************************)
C16_BindablesInPostOrder ==
    \A k \in 1..Len(lastEval) :
        LET rec == lastEval[k]
            RECURSIVE postOrder(_), argsOrder(_, _)
            postOrder(e) ==
                IF parseExpr(e.name).isLiteral THEN <<>>
                ELSE argsOrder(e.args, 1) \o
                     ( IF scope_lookup(rec.scope, e.name, rec.mdl, helpers).sym.kind
                            = "field"
                       THEN <<scope_lookup(rec.scope, e.name, rec.mdl, helpers).sym>>
                       ELSE <<>> )
            argsOrder(args, i) ==
                IF i > Len(args) THEN <<>>
                ELSE postOrder(args[i]) \o argsOrder(args, i + 1)
        IN rec.res.err = NoErr =>
             /\ rec.res.blist = postOrder(rec.res.root)
             /\ \A i \in 1..Len(rec.res.blist) :
                    /\ rec.res.blist[i].kind = "field"
                    /\ rec.res.blist[i].name \notin DOMAIN helpers
                         \/ rec.res.blist[i].model \in ModelRefs

C16_Witness ==
    /\ Len(lastEval) = 1
    /\ lastEval[1].bexpr = <<"eq(same(done), done)">>
    /\ lastEval[1].res.err = NoErr
    /\ Len(lastEval[1].res.blist) = 3
    /\ lastEval[1].res.blist[1].name = "done"
    /\ lastEval[1].res.blist[2].name = "same"
    /\ lastEval[1].res.blist[3] = lastEval[1].res.blist[1]
    /\ lastEval[1].res.value = "true"

(***************************************************************************)
(* C17: a reactive re-evaluation that fails aborts only that update.  In   *)
(* the step of a notification whose re-evaluation fails, the update        *)
(* callback is not applied (no Update, no field assignment, no model       *)
(* change: only the failed notification is noted); no step ever removes a  *)
(* subscription; every change of a field notifies every subscription       *)
(* installed on it, whatever happened to it before; and a notification     *)
(* whose re-evaluation succeeds hands the callback the value of the root   *)
(* expression on the models as they are then.                              *)
(***************************************************************************)
C17_FailedUpdateKeepsSubscription ==
    [][ /\ Len(subs') >= Len(subs)
        /\ SubSeq(subs', 1, Len(subs)) = subs
        /\ mutations' = mutations + 1 =>
              \A i \in 1..Len(subs) :
                  ( /\ subs[i].field \in DOMAIN models[subs[i].model]
                    /\ models'[subs[i].model][subs[i].field] #
                           models[subs[i].model][subs[i].field] ) =>
                  \E p \in 1..Len(pending') : pending'[p] = i
        /\ pending # <<>> =>
              LET sub == subs[Head(pending)]
                  sl == <<sub.cb.elem, sub.cb.attr>>
                  r == evaluateRec(sub.root, sub.scope, models, helpers)
              IN IF r.err # NoErr
                 THEN /\ binderLog' = [binderLog EXCEPT ![sl] =
                                          Append(@, Ev("Notified", "failed"))]
                      /\ models' = models
                      /\ lastCallback' = lastCallback
                      /\ lastError' # NoPanic
                 ELSE /\ lastCallback'.sub = Head(pending)
                      /\ lastCallback'.value = r.v
                      /\ sub.cb.kind = "dom" =>
                           binderLog' = [binderLog EXCEPT ![sl] =
                                            @ \o <<Ev("Notified", "ok"),
                                                   Ev("Update", r.v)>>]
      ]_vars

C17_Witness ==
    /\ mutations = 2
    /\ pending = <<>>
    /\ models[PageModel].state = "true"
    /\ LET log == binderLog[<<"a1", "bind-visible">>]
           L == Len(log)
       IN /\ L >= 3
          /\ log[L - 2] = Ev("Notified", "failed")
          /\ log[L - 1] = Ev("Notified", "ok")
          /\ log[L] = Ev("Update", "false")
    /\ lastCallback.sub # 0
    /\ subs[lastCallback.sub].cb.elem = "a1"
    /\ subs[lastCallback.sub].field = "state"
    /\ lastCallback.value = "false"

(***************************************************************************)
(* C18: a bind task whose element an earlier task of the same pass has     *)
(* taken out of the document is skipped, without error, when it runs.      *)
(* Tasks are scheduled for elements that are in the document when the      *)
(* pass is prepared, so a task that finds its element out of the document  *)
(* has had it detached during the pass; the trace then shows a skip.       *)
(***************************************************************************)
C18_DetachedElementTaskSkipped ==
    \A j \in 1..Len(trace) :
        (trace[j].ev \in {"bind", "skip"} /\ ~trace[j].attached) =>
            /\ trace[j].ev = "skip"
            /\ ~trace[j].panicked

(***************************************************************************)
(* C19: bindPrepare only collects tasks.  The step in which a pass is      *)
(* prepared calls no binder, evaluates no expression, writes no model      *)
(* field, sets no marker, installs no subscription and replaces no         *)
(* element; when bindPrepare returns, every task it returned is still to   *)
(* be run, and no custom tag it scheduled has had PrepareTagContents       *)
(* called or been replaced.  Its one external effect is a NewModel call    *)
(* for each custom tag it visited.                                         *)
(***************************************************************************)
C19_PrepareOnlyCollects ==
    [][ LET isStart == passes' = passes + 1
            isNested == /\ Len(trace') = Len(trace) + 1
                        /\ trace'[Len(trace')].ev \in {"prepare", "prepare-error"}
            relem == IF isStart THEN Root ELSE trace'[Len(trace')].elem
            visitedTags == { e \in Custom \ {relem} :
                               /\ Reaches(children, relem, e)
                               /\ \A c \in Custom \ {relem, e} :
                                      ~( /\ Reaches(children, relem, c)
                                         /\ Reaches(children, c, e) ) }
        IN (isStart \/ isNested) =>
             /\ UNCHANGED <<binderLog, models, markers, subs, children,
                            applied, ran, pending>>
             /\ lastEval' = IF isStart THEN NoEvals ELSE lastEval
             /\ trace' = IF isStart THEN <<>>
                         ELSE Append(trace, trace'[Len(trace')])
             /\ lastPrep'.err = NoPanic =>
                  /\ stack' = Append(stack, Frame(lastPrep', relem))
                  /\ nTagModels' = nTagModels + Cardinality(visitedTags)
                  /\ Len(lastPrep'.cet) = Cardinality(visitedTags)
                  /\ \A i \in 1..Len(lastPrep'.cet) :
                         /\ lastPrep'.cet[i].elem \in visitedTags
                         /\ jqExists(children', lastPrep'.cet[i].elem)
                         /\ \A j \in 1..Len(trace') :
                                trace'[j].elem # lastPrep'.cet[i].elem
                  /\ \A i \in 1..Len(lastPrep'.bt) :
                         \A j \in 1..Len(trace') :
                             ~( /\ trace'[j].elem = lastPrep'.bt[i].elem
                                /\ trace'[j].attr = lastPrep'.bt[i].name
                                /\ trace'[j].frame = relem )
             /\ lastPrep'.err # NoPanic =>
                  nTagModels' <= nTagModels + Cardinality(visitedTags)
      ]_vars

C19_Witness ==
    /\ passes = 1
    /\ trace = <<>>
    /\ Len(stack) = 1
    /\ Len(stack[1].bt) = 3
    /\ Len(stack[1].cet) = 2
    /\ stack[1].bt = lastPrep.bt
    /\ nTagModels = 2
    /\ models = InitModels
    /\ markers = {}
    /\ subs = <<>>
    /\ \A sl \in Slots : binderLog[sl] = <<>>
    /\ children = InitChildren

(***************************************************************************)
(* C20: bindPrepare schedules no bind task for an element strictly inside  *)
(* a custom tag, since it does not descend into a custom tag's children.   *)
(* Those elements are bound by the nested Bind of the tag's custom-element *)
(* task: after its PrepareTagContents, in a scope made of the tag's own    *)
(* model followed by the helper table, without the enclosing model, and    *)
(* before the tag is replaced by its contents.                             *)
(***************************************************************************)
C20_CustomTagContentsBoundByItsTask ==
    /\ \A d \in 1..Len(stack) :
          \A i \in 1..Len(stack[d].bt) :
              /\ \A c \in Custom \ {stack[d].relem, stack[d].bt[i].elem} :
                     ~Reaches(children, c, stack[d].bt[i].elem)
              /\ d > 1 =>
                   /\ stack[d].relem = Head(stack[d - 1].cet).elem
                   /\ Head(stack[d - 1].cet).tmodel \in TagModels
                   /\ stack[d].bt[i].scope =
                         <<ModelTable(Head(stack[d - 1].cet).tmodel), HelperTable>>
    /\ \A j \in 1..Len(trace) :
          (trace[j].ev \in {"bind", "skip"} /\ trace[j].frame \in Custom) =>
              /\ \E i \in 1..(j - 1) :
                     /\ trace[i].ev \in {"prepare", "prepare-error"}
                     /\ trace[i].elem = trace[j].frame
              /\ \A i \in 1..(j - 1) :
                     ~(trace[i].ev = "replace" /\ trace[i].elem = trace[j].frame)
    /\ \A k \in 1..Len(lastEval) :
          ( /\ trace # <<>>
            /\ trace[Len(trace)].ev = "bind"
            /\ trace[Len(trace)].frame \in Custom
            /\ lastEval[k].bexpr # <<>>
            /\ HasBindPrefix(trace[Len(trace)].attr) ) =>
              /\ Len(lastEval[k].scope) = 2
              /\ lastEval[k].scope[1].kind = "model"
              /\ lastEval[k].scope[1].model \in TagModels
              /\ lastEval[k].scope[2] = HelperTable

C20_Witness ==
    /\ trace # <<>>
    /\ trace[Len(trace)].ev = "bind"
    /\ trace[Len(trace)].elem = "i1"
    /\ trace[Len(trace)].frame = "t1"
    /\ trace[Len(trace)].panicked
    /\ lastError.msg = "Unable to find symbol in the scope"
    /\ lastError.sym = "done"
    /\ "done" \in DOMAIN models[PageModel]
    /\ \E j \in 1..Len(trace) :
          /\ trace[j].ev = "bind" /\ trace[j].elem = "t1"
          /\ trace[j].frame = Root /\ ~trace[j].panicked
    /\ jqExists(children, "t1")

(***************************************************************************)
(* C21: for every DOM bind on which a write-back callback is installed,    *)
(* the field location captured at bind time is assignable whenever the     *)
(* callback can run, so the callback never reaches the "Cannot set field." *)
(* failure; and once the model owning the location has been replaced as    *)
(* the model of the root binding, no write-back callback on the old        *)
(* location is left for the binder to call.                                *)
(***************************************************************************)
C21_WriteBackFieldAssignable ==
    LET replaced(m) == /\ passes > 0
                       /\ m \in {PageModel, AuxModel}
                       /\ \A k \in 1..Len(rootScope) :
                              rootScope[k] # ModelTable(m)
    IN /\ \A w \in watches : CanSet(w.fmodel)
       /\ lastError.msg # "Cannot set field."
       /\ \A w \in watches : ~replaced(w.fmodel.model)

====
